---- MODULE Spec2Model ----
(***************************************************************************)
(* Model of tower's buffer Worker (tower/src/buffer/worker.rs): the task   *)
(* that drains the bounded request queue, checks the service's readiness   *)
(* before each dispatch and propagates a readiness failure to every        *)
(* caller.  The Worker's poll is split into its atomic steps (pc) so that  *)
(* producers, reply-destination holders and Handle holders interleave      *)
(* with it exactly where another thread can.                               *)
(***************************************************************************)
EXTENDS Naturals, Sequences, FiniteSets

MaxMsgs == 2
Capacity == 2
MaxHandles == 2

Msgs == 1..MaxMsgs
Errors == {"E1", "E2"}
None == "None"
Closed == "Closed"
Future == "Future"
NoMsg == 0

VARIABLES
    queue,      \* the mpsc channel's buffered Messages (rx)
    rxClosed,   \* rx.close() was called
    txDropped,  \* every Sender is gone
    prod,       \* per Message: the producer's send: new/reserved/accepted/rejected
    abandoned,  \* per Message: "no", or when its reply destination was abandoned
    checked,    \* per Message: outcome of the dequeue-time msg.tx.is_closed() check
    sent,       \* per Message: the msg.tx.send calls the Worker made
    order,      \* Messages in the order they were accepted onto the queue
    calls,      \* Messages in the order service.call was invoked
    svc,        \* the service's last event as the Worker saw it
    cells,      \* the heap of Arc<Mutex<Option<ServiceError>>> cells
    handles,    \* the Handles outside the Worker: each points to a cell
    mutex,      \* holder of the SharedFailure lock
    failed,     \* Worker.failed
    finish,     \* Worker.finish
    pc,         \* the Worker's position inside poll
    cur,        \* the Message the Worker holds
    err,        \* the error Worker::failed is recording
    res,        \* result of the last get_error_on_closed
    raced,      \* Messages whose send took a step while the failure transition ran
    cleanClose, \* the send-side closed while SharedFailure was empty
    polledFinished \* poll was entered on a Worker that had finished

vars == <<queue, rxClosed, txDropped, prod, abandoned, checked, sent, order, calls,
          svc, cells, handles, mutex, failed, finish, pc, cur, err, res, raced,
          cleanClose, polledFinished>>

chanVars == <<queue, rxClosed, txDropped, prod, order, raced, cleanClose>>
msgVars == <<abandoned, checked, sent>>
handleVars == <<cells, handles, mutex, res>>

\* Worker.handle: the clone of the Handle made in Worker::new
handle == 1

\* *self.handle.inner
inner == cells[handle]

\* ServiceError::new: wraps the boxed error in an Arc
ServiceErrorNew(e) == "ServiceError(" \o e \o ")"

ServiceErrors == {ServiceErrorNew(e) : e \in Errors}

permits == {m \in Msgs : prod[m] = "reserved"}

FailSteps == {"failed_lock", "failed_set", "failed_unlock", "failed_close", "failed_store"}

Init ==
    /\ queue = <<>>
    /\ rxClosed = FALSE
    /\ txDropped = FALSE
    /\ prod = [m \in Msgs |-> "new"]
    /\ abandoned = [m \in Msgs |-> "no"]
    /\ checked = [m \in Msgs |-> "no"]
    /\ sent = [m \in Msgs |-> <<>>]
    /\ order = <<>>
    /\ calls = <<>>
    /\ svc = "none"
    /\ cells = <<None>>
    /\ handles = <<1>>
    /\ mutex = "free"
    /\ failed = None
    /\ finish = FALSE
    /\ pc = "idle"
    /\ cur = NoMsg
    /\ err = None
    /\ res = None
    /\ raced = {}
    /\ cleanClose = FALSE
    /\ polledFinished = FALSE

----------------------------------------------------------------------------
(* The queue's send-side (external: tokio mpsc Sender, reserve then send)  *)

\* A producer asks for a slot: rejected once the receive-side is closed,
\* waits while the queue is full.
Reserve(m) ==
    /\ prod[m] = "new"
    /\ ~txDropped
    /\ \/ /\ rxClosed
          /\ prod' = [prod EXCEPT ![m] = "rejected"]
       \/ /\ ~rxClosed
          /\ Len(queue) + Cardinality(permits) < Capacity
          /\ prod' = [prod EXCEPT ![m] = "reserved"]
    /\ raced' = IF pc \in FailSteps THEN raced \cup {m} ELSE raced
    /\ UNCHANGED <<queue, rxClosed, txDropped, order, cleanClose>>
    /\ UNCHANGED <<msgVars, handleVars, calls, svc, failed, finish, pc, cur, err>>
    /\ UNCHANGED polledFinished

\* A producer holding a slot puts its Message on the queue.
Push(m) ==
    /\ prod[m] = "reserved"
    /\ prod' = [prod EXCEPT ![m] = "accepted"]
    /\ queue' = Append(queue, m)
    /\ order' = Append(order, m)
    /\ raced' = IF pc \in FailSteps THEN raced \cup {m} ELSE raced
    /\ UNCHANGED <<rxClosed, txDropped, cleanClose>>
    /\ UNCHANGED <<msgVars, handleVars, calls, svc, failed, finish, pc, cur, err>>
    /\ UNCHANGED polledFinished

\* The last Sender is dropped: the send-side closes.
DropSenders ==
    /\ ~txDropped
    /\ permits = {}
    /\ txDropped' = TRUE
    /\ cleanClose' = (inner = None)
    /\ UNCHANGED <<queue, rxClosed, prod, order, raced>>
    /\ UNCHANGED <<msgVars, handleVars, calls, svc, failed, finish, pc, cur, err>>
    /\ UNCHANGED polledFinished

\* The holder of a Message's reply destination abandons it.
Abandon(m) ==
    /\ prod[m] = "accepted"
    /\ abandoned[m] = "no"
    /\ sent[m] = <<>>
    /\ abandoned' = [abandoned EXCEPT ![m] = IF checked[m] = "no" THEN "early" ELSE "late"]
    /\ UNCHANGED <<chanVars, checked, sent, handleVars, calls, svc, failed, finish, pc,
                   cur, err>>
    /\ UNCHANGED polledFinished

----------------------------------------------------------------------------
(* Handle                                                                  *)

\* .as_ref().map(|svc_err| svc_err.clone().into()).unwrap_or_else(|| Closed::new().into())
ErrorOf(v) == IF v # None THEN v ELSE Closed

\* Handle::get_error_on_closed, as a function of the cell the Handle points to
ErrorOnClosed(c) == ErrorOf(cells[c])

\* a query that takes the error out of the cell instead of cloning it
get_error_on_closed_take(h) ==
    /\ h \in 1..Len(handles)
    /\ mutex = "free"
    /\ res' = ErrorOnClosed(handles[h])
    /\ cells' = [cells EXCEPT ![handles[h]] = None]
    /\ UNCHANGED <<chanVars, msgVars, handles, mutex, calls, svc, failed, finish,
                   pc, cur, err>>
    /\ UNCHANGED polledFinished

get_error_on_closed(h) ==
    /\ h \in 1..Len(handles)
    /\ mutex = "free"
    /\ res' = ErrorOnClosed(handles[h])
    /\ UNCHANGED <<chanVars, msgVars, cells, handles, mutex, calls, svc, failed, finish,
                   pc, cur, err>>
    /\ UNCHANGED polledFinished

\* clone that copies the cell instead of sharing it
cloneDeep(h) ==
    /\ h \in 1..Len(handles)
    /\ Len(handles) < MaxHandles
    /\ cells' = Append(cells, cells[handles[h]])
    /\ handles' = Append(handles, Len(cells) + 1)
    /\ UNCHANGED <<chanVars, msgVars, mutex, res, calls, svc, failed, finish, pc, cur, err>>
    /\ UNCHANGED polledFinished

\* Handle::clone: a new Handle on the same cell
clone(h) ==
    /\ h \in 1..Len(handles)
    /\ Len(handles) < MaxHandles
    /\ handles' = Append(handles, handles[h])
    /\ UNCHANGED <<chanVars, msgVars, cells, mutex, res, calls, svc, failed, finish,
                   pc, cur, err>>
    /\ UNCHANGED polledFinished

----------------------------------------------------------------------------
(* Worker::poll                                                            *)

workerFrame == <<chanVars, msgVars, handleVars, calls, svc, failed, finish, cur, err>>

\* poll without the early return of a finished Worker
PollEnterNoFinishCheck ==
    /\ pc = "idle"
    /\ pc' = "loop"
    /\ polledFinished' = (polledFinished \/ finish)
    /\ UNCHANGED workerFrame

\* poll is entered: a finished Worker returns Ready at once
PollEnter ==
    /\ pc = "idle"
    /\ pc' = IF finish THEN "idle" ELSE "loop"
    /\ polledFinished' = (polledFinished \/ finish)
    /\ UNCHANGED workerFrame

\* a loop that asks for readiness even after a failure was recorded
PollReadyAlways ==
    /\ pc = "loop"
    /\ \/ /\ svc' = "pending"
          /\ pc' = "idle"
          /\ UNCHANGED err
       \/ \E e \in Errors :
             /\ svc' = "err"
             /\ err' = ServiceErrorNew(e)
             /\ pc' = "failed_lock"
       \/ /\ svc' = "ready"
          /\ pc' = "recv"
          /\ UNCHANGED err
    /\ UNCHANGED <<chanVars, msgVars, handleVars, calls, failed, finish, cur>>
    /\ UNCHANGED polledFinished

\* a loop that polls the queue although the service reported not-ready
PollReadyIgnoresPending ==
    /\ pc = "loop"
    /\ \/ /\ failed # None
          /\ pc' = "recv"
          /\ UNCHANGED <<svc, err>>
       \/ /\ failed = None
          /\ \/ /\ svc' = "pending"
                /\ pc' = "recv"
                /\ UNCHANGED err
             \/ \E e \in Errors :
                   /\ svc' = "err"
                   /\ err' = ServiceErrorNew(e)
                   /\ pc' = "failed_lock"
             \/ /\ svc' = "ready"
                /\ pc' = "recv"
                /\ UNCHANGED err
    /\ UNCHANGED <<chanVars, msgVars, handleVars, calls, failed, finish, cur>>
    /\ UNCHANGED polledFinished

\* top of the loop: poll_ready unless a failure is recorded
PollReady ==
    /\ pc = "loop"
    /\ \/ /\ failed # None
          /\ pc' = "recv"
          /\ UNCHANGED <<svc, err>>
       \/ /\ failed = None
          /\ \/ /\ svc' = "pending"
                /\ pc' = "idle"
                /\ UNCHANGED err
             \/ \E e \in Errors :
                   /\ svc' = "err"
                   /\ err' = ServiceErrorNew(e)
                   /\ pc' = "failed_lock"
             \/ /\ svc' = "ready"
                /\ pc' = "recv"
                /\ UNCHANGED err
    /\ UNCHANGED <<chanVars, msgVars, handleVars, calls, failed, finish, cur>>
    /\ UNCHANGED polledFinished

\* failed that closes the receive-side before it records the error
FailedLockClosesFirst ==
    /\ pc = "failed_lock"
    /\ mutex = "free"
    /\ mutex' = "worker"
    /\ rxClosed' = TRUE
    /\ pc' = "failed_set"
    /\ UNCHANGED <<queue, txDropped, prod, order, raced, cleanClose>>
    /\ UNCHANGED <<msgVars, cells, handles, res, calls, svc, failed, finish, cur, err>>
    /\ UNCHANGED polledFinished

\* Worker::failed: self.handle.inner.lock()
FailedLock ==
    /\ pc = "failed_lock"
    /\ mutex = "free"
    /\ mutex' = "worker"
    /\ pc' = "failed_set"
    /\ UNCHANGED <<chanVars, msgVars, cells, handles, res, calls, svc, failed, finish,
                   cur, err>>
    /\ UNCHANGED polledFinished

\* a set without the check
CheckAndSetOverwrite(c, e) == e

\* Worker::failed: what the check-and-set leaves in the cell
CheckAndSet(c, e) == IF c # None THEN c ELSE e

\* Worker::failed: the check-and-set under the lock; the early return drops the guard
FailedSet ==
    /\ pc = "failed_set"
    /\ cells' = [cells EXCEPT ![handle] = CheckAndSet(inner, err)]
    /\ IF inner # None
         THEN /\ mutex' = "free"
              /\ pc' = "recv"
         ELSE /\ pc' = "failed_unlock"
              /\ UNCHANGED mutex
    /\ UNCHANGED <<chanVars, msgVars, handles, res, calls, svc, failed, finish, cur, err>>
    /\ UNCHANGED polledFinished

\* Worker::failed: drop(inner)
FailedUnlock ==
    /\ pc = "failed_unlock"
    /\ mutex' = "free"
    /\ pc' = "failed_close"
    /\ UNCHANGED <<chanVars, msgVars, cells, handles, res, calls, svc, failed, finish,
                   cur, err>>
    /\ UNCHANGED polledFinished

\* failed that never closes the receive-side
FailedCloseSkipped ==
    /\ pc = "failed_close"
    /\ pc' = "failed_store"
    /\ UNCHANGED <<chanVars, msgVars, handleVars, calls, svc, failed, finish, cur, err>>
    /\ UNCHANGED polledFinished

\* Worker::failed: self.rx.close()
FailedClose ==
    /\ pc = "failed_close"
    /\ rxClosed' = TRUE
    /\ pc' = "failed_store"
    /\ UNCHANGED <<queue, txDropped, prod, order, raced, cleanClose>>
    /\ UNCHANGED <<msgVars, handleVars, calls, svc, failed, finish, cur, err>>
    /\ UNCHANGED polledFinished

\* failed that also ends the Worker instead of leaving the queue to be drained
FailedStoreFinishes ==
    /\ pc = "failed_store"
    /\ failed' = err
    /\ finish' = TRUE
    /\ pc' = "recv"
    /\ UNCHANGED <<chanVars, msgVars, handleVars, calls, svc, cur, err>>
    /\ UNCHANGED polledFinished

\* failed that does not keep the error locally
FailedStoreForgets ==
    /\ pc = "failed_store"
    /\ pc' = "recv"
    /\ UNCHANGED <<chanVars, msgVars, handleVars, calls, svc, failed, finish, cur, err>>
    /\ UNCHANGED polledFinished

\* Worker::failed: self.failed = Some(error)
FailedStore ==
    /\ pc = "failed_store"
    /\ failed' = err
    /\ pc' = "recv"
    /\ UNCHANGED <<chanVars, msgVars, handleVars, calls, svc, finish, cur, err>>
    /\ UNCHANGED polledFinished

\* a receive that takes the newest Message instead of the oldest
PollRecvNewest ==
    /\ pc = "recv"
    /\ IF finish
         THEN /\ pc' = "idle"
              /\ UNCHANGED <<queue, cur, finish, svc>>
         ELSE IF queue # <<>>
         THEN /\ cur' = queue[Len(queue)]
              /\ queue' = SubSeq(queue, 1, Len(queue) - 1)
              /\ pc' = "is_closed"
              /\ UNCHANGED <<finish, svc>>
         ELSE IF txDropped \/ (rxClosed /\ permits = {})
         THEN /\ finish' = TRUE
              /\ pc' = "idle"
              /\ UNCHANGED <<queue, cur, svc>>
         ELSE /\ pc' = "idle"
              /\ svc' = IF svc = "ready" THEN "stale" ELSE svc
              /\ UNCHANGED <<queue, cur, finish>>
    /\ UNCHANGED <<rxClosed, txDropped, prod, order, raced, cleanClose>>
    /\ UNCHANGED <<msgVars, handleVars, calls, failed, err>>
    /\ UNCHANGED polledFinished

\* a receive that takes an empty queue for a closed one
PollRecvFinishOnEmpty ==
    /\ pc = "recv"
    /\ IF finish
         THEN /\ pc' = "idle"
              /\ UNCHANGED <<queue, cur, finish, svc>>
         ELSE IF queue # <<>>
         THEN /\ cur' = Head(queue)
              /\ queue' = Tail(queue)
              /\ pc' = "is_closed"
              /\ UNCHANGED <<finish, svc>>
         ELSE /\ finish' = TRUE
              /\ pc' = "idle"
              /\ UNCHANGED <<queue, cur, svc>>
    /\ UNCHANGED <<rxClosed, txDropped, prod, order, raced, cleanClose>>
    /\ UNCHANGED <<msgVars, handleVars, calls, failed, err>>
    /\ UNCHANGED polledFinished

\* poll_next_msg: rx.poll_recv; None sets the terminal flag
PollRecv ==
    /\ pc = "recv"
    /\ IF finish
         THEN /\ pc' = "idle"
              /\ UNCHANGED <<queue, cur, finish, svc>>
         ELSE IF queue # <<>>
         THEN /\ cur' = Head(queue)
              /\ queue' = Tail(queue)
              /\ pc' = "is_closed"
              /\ UNCHANGED <<finish, svc>>
         ELSE IF txDropped \/ (rxClosed /\ permits = {})
         THEN /\ finish' = TRUE
              /\ pc' = "idle"
              /\ UNCHANGED <<queue, cur, svc>>
         ELSE /\ pc' = "idle"
              /\ svc' = IF svc = "ready" THEN "stale" ELSE svc
              /\ UNCHANGED <<queue, cur, finish>>
    /\ UNCHANGED <<rxClosed, txDropped, prod, order, raced, cleanClose>>
    /\ UNCHANGED <<msgVars, handleVars, calls, failed, err>>
    /\ UNCHANGED polledFinished

\* a dequeue that never looks at the reply destination
IsClosedIgnored ==
    /\ pc = "is_closed"
    /\ checked' = [checked EXCEPT ![cur] = "passed"]
    /\ pc' = "got_msg"
    /\ UNCHANGED <<chanVars, abandoned, sent, handleVars, calls, svc, failed, finish, cur,
                   err>>
    /\ UNCHANGED polledFinished

\* poll_next_msg: msg.tx.is_closed()
IsClosed ==
    /\ pc = "is_closed"
    /\ IF abandoned[cur] = "no"
         THEN /\ checked' = [checked EXCEPT ![cur] = "passed"]
              /\ pc' = "got_msg"
              /\ UNCHANGED cur
         ELSE /\ checked' = [checked EXCEPT ![cur] = "dropped"]
              /\ pc' = "recv"
              /\ cur' = NoMsg
    /\ UNCHANGED <<chanVars, abandoned, sent, handleVars, calls, svc, failed, finish, err>>
    /\ UNCHANGED polledFinished

\* msg.tx.send(v): fails when the reply destination is gone
TxSend(m, v) == [sent EXCEPT ![m] = Append(@, [val |-> v, ok |-> abandoned[m] = "no"])]

\* a failed Worker that drops the Message without notifying its caller
GotMsgNoNotify ==
    /\ pc = "got_msg"
    /\ IF failed # None
         THEN /\ cur' = NoMsg
              /\ pc' = "loop"
         ELSE /\ pc' = "call"
              /\ UNCHANGED cur
    /\ UNCHANGED <<chanVars, msgVars, handleVars, calls, svc, failed, finish, err>>
    /\ UNCHANGED polledFinished

\* the failure branch without its continue: it falls through to the dispatch
GotMsgNoContinue ==
    /\ pc = "got_msg"
    /\ IF failed # None
         THEN sent' = TxSend(cur, failed)
         ELSE UNCHANGED sent
    /\ pc' = "call"
    /\ UNCHANGED <<chanVars, abandoned, checked, handleVars, calls, svc, failed, finish,
                   cur, err>>
    /\ UNCHANGED polledFinished

\* a failed Worker that yields to the scheduler after every failure reply
GotMsgYields ==
    /\ pc = "got_msg"
    /\ IF failed # None
         THEN /\ sent' = TxSend(cur, failed)
              /\ cur' = NoMsg
              /\ pc' = "idle"
         ELSE /\ pc' = "call"
              /\ UNCHANGED <<sent, cur>>
    /\ UNCHANGED <<chanVars, abandoned, checked, handleVars, calls, svc, failed, finish,
                   err>>
    /\ UNCHANGED polledFinished

\* Some(msg): answer with the recorded failure, or go on to dispatch
GotMsg ==
    /\ pc = "got_msg"
    /\ IF failed # None
         THEN /\ sent' = TxSend(cur, failed)
              /\ cur' = NoMsg
              /\ pc' = "loop"
         ELSE /\ pc' = "call"
              /\ UNCHANGED <<sent, cur>>
    /\ UNCHANGED <<chanVars, abandoned, checked, handleVars, calls, svc, failed, finish,
                   err>>
    /\ UNCHANGED polledFinished

\* a dispatch that yields before it hands the response back
CallThenYield ==
    /\ pc = "call"
    /\ calls' = Append(calls, cur)
    /\ svc' = "call"
    /\ pc' = "idle"
    /\ UNCHANGED <<chanVars, msgVars, handleVars, failed, finish, cur, err>>
    /\ UNCHANGED polledFinished

\* self.service.call(msg.request)
Call ==
    /\ pc = "call"
    /\ calls' = Append(calls, cur)
    /\ svc' = "call"
    /\ pc' = "send"
    /\ UNCHANGED <<chanVars, msgVars, handleVars, failed, finish, cur, err>>
    /\ UNCHANGED polledFinished

\* a loop that goes back to the queue without asking for readiness again
SendResponseKeepsReadiness ==
    /\ pc = "send"
    /\ sent' = TxSend(cur, Future)
    /\ cur' = NoMsg
    /\ pc' = "recv"
    /\ UNCHANGED <<chanVars, abandoned, checked, handleVars, calls, svc, failed, finish,
                   err>>
    /\ UNCHANGED polledFinished

\* a response send whose error ends the Worker
SendResponseStopsOnError ==
    /\ pc = "send"
    /\ sent' = TxSend(cur, Future)
    /\ cur' = NoMsg
    /\ finish' = (abandoned[cur] # "no")
    /\ pc' = IF abandoned[cur] # "no" THEN "idle" ELSE "loop"
    /\ UNCHANGED <<chanVars, abandoned, checked, handleVars, calls, svc, failed, err>>
    /\ UNCHANGED polledFinished

\* msg.tx.send(Ok(response))
SendResponse ==
    /\ pc = "send"
    /\ sent' = TxSend(cur, Future)
    /\ cur' = NoMsg
    /\ pc' = "loop"
    /\ UNCHANGED <<chanVars, abandoned, checked, handleVars, calls, svc, failed, finish,
                   err>>
    /\ UNCHANGED polledFinished

WorkerStep ==
    \/ PollEnter
    \/ PollReady
    \/ FailedLock
    \/ FailedSet
    \/ FailedUnlock
    \/ FailedClose
    \/ FailedStore
    \/ PollRecv
    \/ IsClosed
    \/ GotMsg
    \/ Call
    \/ SendResponse

Next ==
    \/ \E m \in Msgs : Reserve(m)
    \/ \E m \in Msgs : Push(m)
    \/ DropSenders
    \/ \E m \in Msgs : Abandon(m)
    \/ \E h \in 1..MaxHandles : get_error_on_closed(h)
    \/ \E h \in 1..MaxHandles : clone(h)
    \/ WorkerStep

Spec == Init /\ [][Next]_vars

\* The Worker task is scheduled again whenever it can step, and the service's
\* readiness check does not report not-ready forever.
ReadyAnswers == PollReady /\ pc' # "idle"

FairSpec == Spec /\ WF_vars(WorkerStep) /\ SF_vars(ReadyAnswers)

\* FairSpec, and a producer that holds a slot of the queue puts its Message on it.
DrainSpec == FairSpec /\ WF_vars(\E m \in Msgs : Push(m))

----------------------------------------------------------------------------
(* Properties                                                              *)

Range(s) == {s[i] : i \in 1..Len(s)}

\* position of Message m in the sequence s (0 when absent)
Pos(s, m) == IF m \in Range(s) THEN CHOOSE i \in 1..Len(s) : s[i] = m ELSE 0

Accepted(m) == prod[m] = "accepted"

Answered(m) == sent[m] # <<>>

\* C1 as stated: when the Worker has finished, every accepted Message was either
\* dispatched or sent a failure, cancellations included.
C1_NoLossOriginal == finish => \A m \in Msgs : Accepted(m) => Answered(m)

\* C1 (amended): under fair scheduling every accepted Message is eventually
\* dispatched, sent the failure, or found abandoned at the dequeue-time check
\* and dropped.
C1_NoLoss ==
    \A m \in Msgs : Accepted(m) ~> (Answered(m) \/ checked[m] = "dropped")

C1_Witness ==
    /\ finish
    /\ \E m, n \in Msgs :
          /\ Accepted(m) /\ Answered(m) /\ sent[m][1].val = Future
          /\ Accepted(n) /\ Answered(n) /\ sent[n][1].val \in ServiceErrors

C3_StickyOnce ==
    [][inner # None =>
          /\ inner' = inner
          /\ \A e \in ServiceErrors : CheckAndSet(inner, e) = inner
          /\ \A h \in 1..Len(handles') : ErrorOf(cells'[handles'[h]]) = inner]_vars

C3_Witness == inner = ServiceErrorNew("E1") /\ finish /\ res = inner

\* C4: service.call is invoked in the order the Messages were accepted.
C4_Fifo ==
    \A i, j \in 1..Len(calls) :
       i < j => Pos(order, calls[i]) < Pos(order, calls[j])

C4_Witness == Len(calls) = 2 /\ order = <<2, 1>>

\* C5: every service.call happens while the service's last event is a ready
\* report of the same poll turn and loop iteration.
C5_Backpressure == [][calls' # calls => svc = "ready"]_vars

C5_Witness == Len(calls) = 2 /\ svc = "pending"

\* C6: a Message abandoned before its dequeue-time check is never passed to
\* service.call and gets no reply.
C6_NoWastedCalls ==
    \A m \in Msgs :
       /\ abandoned[m] = "early" => m \notin Range(calls) /\ checked[m] # "passed"
       /\ checked[m] = "dropped" => m \notin Range(calls) /\ sent[m] = <<>> /\ cur # m

C6_Witness ==
    \E m, n \in Msgs :
       /\ checked[m] = "dropped"
       /\ Pos(order, m) < Pos(order, n)
       /\ n \in Range(calls)

\* C7 as stated: once the send-side has closed with no failure recorded,
\* failure_reason() returns the closed-without-cause error ever after.
C7_CleanShutdownOriginal ==
    cleanClose => \A h \in 1..Len(handles) : ErrorOnClosed(handles[h]) = Closed

\* C7 (amended): after the send-side closes with no failure recorded the Worker
\* reaches Finished under fair scheduling; failure_reason() returns the
\* closed-without-cause error for as long as no readiness error is recorded,
\* and for ever once the Worker is Finished with none recorded.
C7_CleanShutdown ==
    /\ cleanClose ~> finish
    /\ [](inner = None => \A h \in 1..Len(handles) : ErrorOnClosed(handles[h]) = Closed)
    /\ [][(finish /\ inner = None) => (finish' /\ inner' = None)]_vars

C7_Witness == cleanClose /\ finish /\ inner = None /\ res = Closed /\ order = <<>>

\* C8: every Handle, original or clone, returns the error stored in the
\* Worker's SharedFailure cell when there is one and the generic closed error
\* otherwise; a recorded result is never anything else.
C8_FailureReason ==
    /\ \A h \in 1..Len(handles) :
          ErrorOnClosed(handles[h]) = (IF inner # None THEN inner ELSE Closed)
    /\ \A g, h \in 1..Len(handles) : ErrorOnClosed(handles[g]) = ErrorOnClosed(handles[h])
    /\ res \in {None, Closed, inner}

C8_Witness == Len(handles) = 2 /\ inner \in ServiceErrors /\ res = inner

\* C9: the receive-side is never closed while SharedFailure is empty, so a
\* rejected producer always reads the recorded service failure.
C9_RecordBeforeClose ==
    /\ rxClosed => inner \in ServiceErrors
    /\ \A m \in Msgs : prod[m] = "rejected" =>
          \A h \in 1..Len(handles) : ErrorOnClosed(handles[h]) \in ServiceErrors

C9_Witness ==
    /\ pc = "failed_store"
    /\ rxClosed
    /\ \E m \in Msgs : prod[m] = "rejected"
    /\ res = inner

\* C10: the Worker sends at most one reply per Message: exactly one once a
\* Message that passed the dequeue-time check has been handled, none for a
\* Message found abandoned.
C10_OneReply ==
    \A m \in Msgs :
       /\ Len(sent[m]) <= 1
       /\ checked[m] = "dropped" => sent[m] = <<>>
       /\ checked[m] = "no" => sent[m] = <<>>
       /\ (checked[m] = "passed" /\ cur # m) => Len(sent[m]) = 1

C10_Witness ==
    \E m, n \in Msgs :
       /\ checked[m] = "passed" /\ Len(sent[m]) = 1 /\ sent[m][1].val = Future
       /\ checked[n] = "dropped" /\ sent[n] = <<>>
       /\ finish

\* the Worker's own fields and what it has done to the service and the replies
workerState == <<failed, finish, pc, cur, err, svc, calls, checked, sent>>

\* C11: SharedFailure changes only in the check-and-set of the failure
\* transition, whatever Handles, producers, reply holders and the rest of the
\* Worker do; a failure_reason() call changes nothing but its own result.
C11_OnlyWorkerWrites ==
    [][/\ cells' # cells => (pc = "failed_set" /\ mutex = "worker" /\ Len(cells') = Len(cells))
       /\ res' # res => UNCHANGED <<cells, handles, mutex, queue, rxClosed, txDropped,
                                    prod, abandoned, workerState>>
       /\ handles' # handles => UNCHANGED <<cells, res, queue, workerState>>]_vars

C11_Witness ==
    /\ inner \in ServiceErrors
    /\ res = inner
    /\ Len(handles) = 2
    /\ finish
    /\ \E m, n \in Msgs : m \in Range(calls) /\ abandoned[n] # "no"

\* C12: once a failure is recorded the service is never invoked again, neither
\* poll_ready nor call, and every reply sent from then on is the recorded
\* failure, never an in-flight handle.
C12_FailedNeverCalls ==
    [][inner # None =>
          /\ svc = "err" /\ svc' = "err"
          /\ calls' = calls
          /\ pc' \notin {"call", "send"}
          /\ pc' = "failed_lock" => pc = "failed_lock"
          /\ \A m \in Msgs : sent'[m] # sent[m] =>
                /\ Len(sent'[m]) = Len(sent[m]) + 1
                /\ sent'[m][Len(sent'[m])].val = inner
                /\ inner = failed]_vars

C12_Witness ==
    /\ failed \in ServiceErrors
    /\ \E m, n \in Msgs :
          /\ sent[m] = <<[val |-> Future, ok |-> TRUE]>>
          /\ sent[n] = <<[val |-> failed, ok |-> TRUE]>>

\* C13: entering poll on a finished Worker changes nothing of the Worker, the
\* service, the queue, the replies or SharedFailure.
C13_FinishedNoOp ==
    [][finish =>
          /\ pc = "idle" /\ pc' = "idle" /\ finish'
          /\ UNCHANGED <<failed, cur, err, svc, calls, checked, sent, cells, mutex,
                         queue, rxClosed>>]_vars

C13_Witness == finish /\ polledFinished /\ pc = "idle"

\* C14: the terminal flag is set only when the queue is closed and drained (no
\* Message buffered, no send in progress, no further send possible), and once
\* set it stays set, whether the Worker was Active or Failed.
C14_FinishOnlyWhenDrained ==
    /\ [](finish => /\ queue = <<>>
                    /\ permits = {}
                    /\ txDropped \/ rxClosed
                    /\ cur = NoMsg)
    /\ [][finish => finish']_vars

C14_Witness ==
    /\ finish
    /\ failed \in ServiceErrors
    /\ ~txDropped
    /\ \E m \in Msgs : Answered(m)
    /\ polledFinished

\* C15: a set local failure equals SharedFailure and the receive-side is then
\* closed; whenever the Worker has yielded, the local failure is set exactly
\* when SharedFailure is.
C15_LocalMirrorsShared ==
    /\ failed # None => (inner = failed /\ rxClosed)
    /\ pc = "idle" => (failed # None <=> inner # None)

C15_Witness ==
    /\ pc = "idle"
    /\ ~finish
    /\ failed \in ServiceErrors
    /\ inner = failed
    /\ permits # {}

C17_LateAbandonIgnored ==
    [][/\ (pc = "got_msg" /\ failed = None /\ pc' # pc) => pc' = "call"
       /\ (pc = "call" /\ pc' # pc) => (calls' = Append(calls, cur) /\ pc' = "send")
       /\ \A m \in Msgs :
             (sent'[m] # sent[m] /\ ~sent'[m][Len(sent'[m])].ok) =>
                /\ abandoned[m] = "late"
                /\ UNCHANGED <<cells, failed, finish, rxClosed, queue>>
                /\ pc' = "loop"]_vars

C17_Witness ==
    \E m, n \in Msgs :
       /\ abandoned[m] = "late"
       /\ sent[m] = <<[val |-> Future, ok |-> FALSE]>>
       /\ calls = <<m, n>>
       /\ inner = None

C19_DequeueOnlyWhenReady ==
    [][/\ (failed = None /\ Len(queue') < Len(queue)) => (svc = "ready" /\ pc = "recv")
       /\ (failed = None /\ finish' /\ ~finish) => svc = "ready"
       /\ (pc = "loop" /\ pc' # "loop" /\ svc' = "pending") =>
             (pc' = "idle" /\ UNCHANGED <<queue, cur, checked, finish>>)]_vars

C19_Witness ==
    /\ pc = "idle"
    /\ svc = "pending"
    /\ txDropped
    /\ ~finish
    /\ Len(queue) = 2
    /\ abandoned[Head(queue)] = "early"
    /\ Len(calls) = 0

\* C20: Worker::failed is entered only with the local failure and
\* SharedFailure both empty, so the early return of the check-and-set is never
\* taken and the transition runs at most once.
C20_FailedRunsOnce ==
    /\ pc \in {"failed_lock", "failed_set"} => (inner = None /\ failed = None)
    /\ pc \in {"failed_unlock", "failed_close", "failed_store"} =>
          (inner = err /\ failed = None)
    /\ inner # None => (svc = "err" /\ err = inner)

C20_Witness == pc = "failed_set" /\ mutex = "worker" /\ inner = None /\ Len(calls) = 1

====
